---- MODULE Spec2Model ----
(***************************************************************************)
(* A model of lean/components/util/http_client.py: the HTTPClient facade   *)
(* around the requests library.  One behaviour of the model is one call of *)
(* get, post, request or download_file, followed step by step: the request *)
(* log line, the transport's answer, the response check, and, for          *)
(* download_file, the streaming loop with the progress indicator, the      *)
(* output file and the points at which an error or a KeyboardInterrupt can *)
(* leave the call.                                                         *)
(*                                                                         *)
(* The collaborators (the logger, the transport, the file system) are      *)
(* recorded by what the client does to them: the debug lines in `log`, the *)
(* calls on the progress indicator in `progressCalls`, the bytes of the    *)
(* output path in `disk`.                                                  *)
(***************************************************************************)
EXTENDS Integers, Sequences, FiniteSets, TLC

VARIABLES
    pc,             \* position of the call in the code
    op,             \* "get", "post", "request" or "download_file"
    method,         \* the verb handed to _log_request
    kwargs,         \* the keyword arguments of the call, a function on the keys given
    log,            \* the messages passed to Logger.debug, in order
    response,       \* the transport's response, or NoResponse
    outcome,        \* how the call ended: nothing yet, a return, or a raised error
    total_size_bytes,
    progress,       \* None, or the indicator obtained from Logger.progress()
    progressCalls,  \* the calls made on the logger's progress interface, in order
    written_bytes,
    chunk,          \* the chunk in hand inside the loop
    streamed,       \* the chunks the transport has yielded so far, in order
    writes,         \* the number of file.write calls made
    disk,           \* the output path: whether it exists, and its bytes
    fileOpen,       \* whether the handle of the `with` block is open
    interruptedAt   \* the position at which a KeyboardInterrupt arrived, or "never"

vars == <<pc, op, method, kwargs, log, response, outcome, total_size_bytes, progress,
          progressCalls, written_bytes, chunk, streamed, writes, disk, fileOpen,
          interruptedAt>>

-----------------------------------------------------------------------------
(* Bounds of the model. *)

\* the transport yields at most this many chunks in one download
MaxChunks == 2
\* a chunk has at most this many bytes (the code asks for chunk_size=8192)
MaxChunkLen == 2

-----------------------------------------------------------------------------
(* Python values passed as json=, data= or params=. *)

PyNone == [t |-> "NoneType", items |-> <<>>]
EmptyDict == [t |-> "dict", items |-> <<>>]
DictA == [t |-> "dict", items |-> << <<"a", 1>> >>]
DictB == [t |-> "dict", items |-> << <<"b", 2>> >>]
EmptyList == [t |-> "list", items |-> <<>>]
BytesValue == [t |-> "bytes", items |-> <<>>]

PayloadValues == {PyNone, EmptyDict, DictA, DictB, EmptyList, BytesValue}
PayloadKeys == <<"json", "data", "params">>

Url == "https://host/file"
Methods == {"put"}

\* str.upper() on the verbs of the model
Upper(m) ==
    CASE m = "put" -> "PUT"
      [] m = "GET" -> "GET"
      [] m = "POST" -> "POST"

Digits == <<"0", "1", "2", "3", "4", "5", "6", "7", "8", "9">>

\* str(n) of a non-negative integer, as an f-string formats it
RECURSIVE IntStr(_)
IntStr(n) ==
    IF n < 10 THEN Digits[n + 1]
    ELSE IntStr(n \div 10) \o Digits[(n % 10) + 1]

\* the members of a dict, one per line, at indent 4
RECURSIVE DumpItems(_)
DumpItems(items) ==
    IF items = <<>> THEN ""
    ELSE LET head == "    \"" \o items[1][1] \o "\": " \o IntStr(items[1][2])
         IN  IF Len(items) = 1 THEN head
             ELSE head \o ",\n" \o DumpItems(Tail(items))

\* json.dumps(value, indent=4): the text, or a TypeError for a value json cannot encode
json_dumps(value) ==
    CASE value.t = "NoneType" -> [ok |-> TRUE, text |-> "null"]
      [] value.t = "dict" ->
            IF value.items = <<>> THEN [ok |-> TRUE, text |-> "{}"]
            ELSE [ok |-> TRUE, text |-> "{\n" \o DumpItems(value.items) \o "\n}"]
      [] value.t = "list" -> [ok |-> TRUE, text |-> "[]"]
      [] OTHER -> [ok |-> FALSE, text |-> ""]

\* next((kwargs.get(key) for key in [...] if key in kwargs), None), scanning from key i
RECURSIVE FirstPresentFrom(_, _)
FirstPresentFrom(kw, i) ==
    IF i > Len(PayloadKeys) THEN PyNone
    ELSE IF PayloadKeys[i] \in DOMAIN kw THEN kw[PayloadKeys[i]]
    ELSE FirstPresentFrom(kw, i + 1)

\* a scan that also skips a key whose value is None or {}
RECURSIVE FirstNonEmptyFrom(_, _)
FirstNonEmptyFrom(kw, i) ==
    IF i > Len(PayloadKeys) THEN PyNone
    ELSE IF PayloadKeys[i] \in DOMAIN kw /\ kw[PayloadKeys[i]] \notin {PyNone, EmptyDict}
         THEN kw[PayloadKeys[i]]
    ELSE FirstNonEmptyFrom(kw, i + 1)

FirstPresent_SkipsEmpty(kw) == FirstNonEmptyFrom(kw, 1)

FirstPresent(kw) == FirstPresentFrom(kw, 1)

\* whether _log_request appends the payload to the line
HasLoggedData(kw) == FirstPresent(kw) # PyNone /\ FirstPresent(kw) # EmptyDict

\* the message _log_request builds: [ok, text]; not ok when json.dumps raises
RequestMessage(m, url, kw) ==
    LET message == "--> " \o Upper(m) \o " " \o url
        data == FirstPresent(kw)
    IN  IF HasLoggedData(kw)
        THEN LET dumped == json_dumps(data)
             IN  [ok |-> dumped.ok, text |-> message \o " with data:\n" \o dumped.text]
        ELSE [ok |-> TRUE, text |-> message]

\* kwargs.pop("raise_for_status", True)
RaiseForStatusOption(kw) ==
    IF "raise_for_status" \in DOMAIN kw THEN kw["raise_for_status"] ELSE TRUE

-----------------------------------------------------------------------------
(* Responses of the transport. *)

NoResponse == [status_code |-> -1, headers |-> <<>>, text |-> ""]

StatusCodes == {199, 200, 299, 300, 400, 599, 600}
BodyTexts == {"", "oops"}

\* values of the content-length header, as character sequences; <<>> in `headers`
\* stands for a response without the header
ContentLengths == { <<"0">>, <<"3">>, <<"4">>, <<"a", "b", "c">> }
HeaderSets == { <<>> } \cup { <<cl>> : cl \in ContentLengths }

Responses ==
    [status_code : StatusCodes, headers : HeaderSets, text : BodyTexts]

\* the test with 300 taken as successful
IsUnsuccessful_Above300(status_code) == status_code < 200 \/ status_code > 300

\* the test with 200 taken as unsuccessful
IsUnsuccessful_UpTo200(status_code) == status_code <= 200 \/ status_code >= 300

\* the test of _check_response for an unsuccessful response
IsUnsuccessful(status_code) == status_code < 200 \/ status_code >= 300

\* requests.Response.raise_for_status raises HTTPError for a 4xx or 5xx status only
RaisesHTTPError(status_code) == 400 <= status_code /\ status_code < 600

\* the message of log_unsuccessful_response
UnsuccessfulMessage(resp) ==
    LET body == IF resp.text # "" THEN "body:\n" \o resp.text ELSE "empty body"
    IN  "Request was not successful, status code " \o IntStr(resp.status_code)
            \o ", " \o body

NoOutcome == [kind |-> "none", error |-> "", response |-> NoResponse]
Returned(resp) == [kind |-> "returned", error |-> "", response |-> resp]
Raised(err, resp) == [kind |-> "raised", error |-> err, response |-> resp]

-----------------------------------------------------------------------------
(* download_file: the content-length header, the chunks, the progress calls. *)

IsDigit(c) == \E i \in 1..Len(Digits) : Digits[i] = c
DigitValue(c) == (CHOOSE i \in 1..Len(Digits) : Digits[i] = c) - 1

RECURSIVE DigitsValue(_, _)
DigitsValue(chars, acc) ==
    IF chars = <<>> THEN acc
    ELSE DigitsValue(Tail(chars), acc * 10 + DigitValue(Head(chars)))

\* int(text) of Python on a string: an optional sign and at least one digit, else
\* a ValueError
PyInt(chars) ==
    LET signed == chars # <<>> /\ Head(chars) \in {"-", "+"}
        body == IF signed THEN Tail(chars) ELSE chars
    IN  IF body # <<>> /\ \A i \in 1..Len(body) : IsDigit(body[i])
        THEN [ok |-> TRUE,
              value |-> IF signed /\ Head(chars) = "-"
                        THEN 0 - DigitsValue(body, 0) ELSE DigitsValue(body, 0)]
        ELSE [ok |-> FALSE, value |-> 0]

\* a header read that falls back to 0 when the value is not a number
ContentLength_Lenient(resp) ==
    IF resp.headers = <<>> \/ ~PyInt(resp.headers[1]).ok THEN [ok |-> TRUE, value |-> 0]
    ELSE PyInt(resp.headers[1])

\* int(response.headers.get("content-length", 0))
ContentLength(resp) ==
    IF resp.headers = <<>> THEN [ok |-> TRUE, value |-> 0]
    ELSE PyInt(resp.headers[1])

Bytes == {0, 1}
Chunks == UNION { [1..n -> Bytes] : n \in 1..MaxChunkLen }

\* the bytes of a sequence of chunks, in order
RECURSIVE Concat(_)
Concat(chunks) ==
    IF chunks = <<>> THEN <<>> ELSE Head(chunks) \o Concat(Tail(chunks))

\* the ratio without the factor 100
Completed_Ratio(written, total) == [num |-> written, den |-> total]

\* (written_bytes / total_size_bytes) * 100, kept as the exact fraction
Completed(written, total) == [num |-> written * 100, den |-> total]

ProgressCall(name) == [call |-> name, completed |-> [num |-> 0, den |-> 1]]
UpdateCall(written, total) == [call |-> "update", completed |-> Completed(written, total)]

\* a progress bar also for a total size of 0
ShowsProgress_AlsoZero(total) == total >= 0

\* line 95: a progress bar is shown only for a known, positive total size
ShowsProgress(total) == total > 0

\* a handle that is not closed when the block is left
CloseFile_Leaks == fileOpen' = fileOpen

\* what leaving the `with` block of line 102 does to the handle
CloseFile == fileOpen' = FALSE

-----------------------------------------------------------------------------
NoFile == [exists |-> FALSE, bytes |-> <<>>]
FileWith(bytes) == [exists |-> TRUE, bytes |-> bytes]
None == "None"

\* the output path before the call: absent, or a file left by an earlier run
InitialDisks == {NoFile, FileWith(<<1>>)}

Init ==
    /\ pc = "idle"
    /\ op = ""
    /\ method = ""
    /\ kwargs = <<>>
    /\ log = <<>>
    /\ response = NoResponse
    /\ outcome = NoOutcome
    /\ total_size_bytes = 0
    /\ progress = None
    /\ progressCalls = <<>>
    /\ written_bytes = 0
    /\ chunk = <<>>
    /\ streamed = <<>>
    /\ writes = 0
    /\ disk \in InitialDisks
    /\ fileOpen = FALSE
    /\ interruptedAt = "never"

downloadVars == <<total_size_bytes, progress, progressCalls, written_bytes, chunk,
                  streamed, writes, disk, fileOpen, interruptedAt>>

\* the keyword arguments a caller may give: any subset of json, data, params, each
\* with any payload value, and raise_for_status absent, True or False
CallerKwargs ==
    UNION { [S -> PayloadValues] : S \in SUBSET {"json", "data", "params"} }

WithRaiseOption(kw, opt) ==
    IF opt = "absent" THEN kw ELSE ("raise_for_status" :> (opt = "true")) @@ kw

\* entry of get (line 32), post (line 49) and request (line 66)
Call(o, m) ==
    /\ pc = "idle"
    /\ \E kw \in CallerKwargs, opt \in {"absent", "true", "false"} :
          kwargs' = WithRaiseOption(kw, opt)
    /\ op' = o
    /\ method' = m
    /\ pc' = "log_request"
    /\ UNCHANGED <<log, response, outcome, downloadVars>>

get == Call("get", "GET")
post == Call("post", "POST")
request == \E m \in Methods : Call("request", m)

\* entry of download_file: self.get(url, stream=True)
download_file ==
    /\ pc = "idle"
    /\ kwargs' = [stream |-> TRUE]
    /\ op' = "download_file"
    /\ method' = "GET"
    /\ pc' = "log_request"
    /\ UNCHANGED <<log, response, outcome, downloadVars>>

\* self._log_request(method, url, **kwargs)
_log_request ==
    /\ pc = "log_request"
    /\ LET msg == RequestMessage(method, Url, kwargs)
       IN  IF msg.ok
           THEN /\ log' = Append(log, msg.text)
                /\ pc' = "dispatch"
                /\ outcome' = outcome
           ELSE /\ log' = log
                /\ pc' = "raised"
                /\ outcome' = Raised("TypeError", NoResponse)
    /\ UNCHANGED <<op, method, kwargs, response, downloadVars>>

\* requests.get / requests.post / requests.request: a response, or a transport error
dispatch ==
    /\ pc = "dispatch"
    /\ \/ /\ \E r \in Responses : response' = r
          /\ pc' = "check_response"
          /\ outcome' = outcome
       \/ /\ response' = response
          /\ pc' = "raised"
          /\ outcome' = Raised("ConnectionError", NoResponse)
    /\ UNCHANGED <<op, method, kwargs, log, downloadVars>>

\* self._check_response(response, raise_for_status), then `return response`
\* (in download_file: the streamed response is kept and the call goes on)
_check_response ==
    /\ pc = "check_response"
    /\ log' = IF IsUnsuccessful(response.status_code)
              THEN Append(log, UnsuccessfulMessage(response))
              ELSE log
    /\ IF RaiseForStatusOption(kwargs) /\ RaisesHTTPError(response.status_code)
       THEN /\ pc' = "raised"
            /\ outcome' = Raised("HTTPError", response)
       ELSE IF op = "download_file"
       THEN /\ pc' = "content_length"
            /\ outcome' = outcome
       ELSE /\ pc' = "returned"
            /\ outcome' = Returned(response)
    /\ UNCHANGED <<op, method, kwargs, response, downloadVars>>

\* line 92: total_size_bytes = int(response.headers.get("content-length", 0))
content_length ==
    /\ pc = "content_length"
    /\ LET parsed == ContentLength(response)
       IN  IF parsed.ok
           THEN /\ total_size_bytes' = parsed.value
                /\ pc' = "acquire_progress"
                /\ outcome' = outcome
           ELSE /\ total_size_bytes' = total_size_bytes
                /\ pc' = "raised"
                /\ outcome' = Raised("ValueError", NoResponse)
    /\ UNCHANGED <<op, method, kwargs, log, response, progress, progressCalls,
                   written_bytes, chunk, streamed, writes, disk, fileOpen, interruptedAt>>

\* lines 95-99: a progress indicator and a task, only for a known total size
acquire_progress ==
    /\ pc = "acquire_progress"
    /\ IF ShowsProgress(total_size_bytes)
       THEN /\ progress' = "Progress"
            /\ progressCalls' = progressCalls \o
                    <<ProgressCall("progress"), ProgressCall("add_task")>>
       ELSE /\ progress' = None
            /\ progressCalls' = progressCalls
    /\ pc' = "open"
    /\ UNCHANGED <<op, method, kwargs, log, response, outcome, total_size_bytes,
                   written_bytes, chunk, streamed, writes, disk, fileOpen, interruptedAt>>

\* line 102-103: output_path.open("wb") truncates the file; written_bytes = 0
open ==
    /\ pc = "open"
    /\ disk' = FileWith(<<>>)
    /\ fileOpen' = TRUE
    /\ written_bytes' = 0
    /\ pc' = "iter"
    /\ UNCHANGED <<op, method, kwargs, log, response, outcome, total_size_bytes,
                   progress, progressCalls, chunk, streamed, writes, interruptedAt>>

\* line 102: the path cannot be opened; the OSError leaves download_file
open_fails ==
    /\ pc = "open"
    /\ pc' = "raised"
    /\ outcome' = Raised("OSError", NoResponse)
    /\ UNCHANGED <<op, method, kwargs, log, response, downloadVars>>

\* line 105: the transport yields the next chunk
iter_content ==
    /\ pc = "iter"
    /\ Len(streamed) < MaxChunks
    /\ \E c \in Chunks :
          /\ chunk' = c
          /\ streamed' = Append(streamed, c)
    /\ pc' = "write"
    /\ UNCHANGED <<op, method, kwargs, log, response, outcome, total_size_bytes,
                   progress, progressCalls, written_bytes, writes, disk, fileOpen,
                   interruptedAt>>

\* line 105: the stream is exhausted; the loop and the `with` block end
iter_ends ==
    /\ pc = "iter"
    /\ CloseFile
    /\ pc' = "finish"
    /\ UNCHANGED <<op, method, kwargs, log, response, outcome, total_size_bytes,
                   progress, progressCalls, written_bytes, chunk, streamed, writes, disk,
                   interruptedAt>>

\* line 105: the transport fails while the body is read; the `with` block closes
\* the file and the error leaves download_file (no except clause matches it)
iter_fails ==
    /\ pc = "iter"
    /\ CloseFile
    /\ pc' = "raised"
    /\ outcome' = Raised("ChunkedEncodingError", NoResponse)
    /\ UNCHANGED <<op, method, kwargs, log, response, total_size_bytes, progress,
                   progressCalls, written_bytes, chunk, streamed, writes, disk,
                   interruptedAt>>

\* line 106: file.write(chunk)
write ==
    /\ pc = "write"
    /\ disk' = FileWith(disk.bytes \o chunk)
    /\ writes' = writes + 1
    /\ pc' = "update"
    /\ UNCHANGED <<op, method, kwargs, log, response, outcome, total_size_bytes,
                   progress, progressCalls, written_bytes, chunk, streamed, fileOpen,
                   interruptedAt>>

\* line 106: file.write raises (a full disk); the `with` block closes the file
write_fails ==
    /\ pc = "write"
    /\ CloseFile
    /\ pc' = "raised"
    /\ outcome' = Raised("OSError", NoResponse)
    /\ UNCHANGED <<op, method, kwargs, log, response, total_size_bytes, progress,
                   progressCalls, written_bytes, chunk, streamed, writes, disk,
                   interruptedAt>>

\* lines 108-110: count the chunk and report the percentage, when there is an indicator
update ==
    /\ pc = "update"
    /\ IF progress # None
       THEN /\ written_bytes' = written_bytes + Len(chunk)
            /\ progressCalls' = Append(progressCalls,
                    UpdateCall(written_bytes + Len(chunk), total_size_bytes))
       ELSE /\ written_bytes' = written_bytes
            /\ progressCalls' = progressCalls
    /\ pc' = "iter"
    /\ UNCHANGED <<op, method, kwargs, log, response, outcome, total_size_bytes,
                   progress, chunk, streamed, writes, disk, fileOpen, interruptedAt>>

TryPositions == {"open", "iter", "write", "update"}
StreamingPositions == {"iter", "write", "update"}
OutsideTryPositions == {"content_length", "acquire_progress", "finish"}

\* a KeyboardInterrupt arrives inside the try block (lines 101-110): the `with`
\* block, if entered, closes the file, and the except clause of line 111 takes over
KeyboardInterrupt ==
    /\ pc \in TryPositions
    /\ interruptedAt' = pc
    /\ CloseFile
    /\ pc' = "except"
    /\ UNCHANGED <<op, method, kwargs, log, response, outcome, total_size_bytes,
                   progress, progressCalls, written_bytes, chunk, streamed, writes, disk>>

\* an except clause that stops the indicator and does not re-raise: the call falls
\* through to line 116
except_KeyboardInterrupt_Swallows ==
    /\ pc = "except"
    /\ progressCalls' = IF progress # None
                        THEN Append(progressCalls, [call |-> "stop",
                                                    completed |-> [num |-> 0, den |-> 1]])
                        ELSE progressCalls
    /\ pc' = "finish"
    /\ UNCHANGED <<op, method, kwargs, log, response, outcome, total_size_bytes, progress,
                   written_bytes, chunk, streamed, writes, disk, fileOpen, interruptedAt>>

\* lines 111-114: stop the indicator, if any, and re-raise
except_KeyboardInterrupt ==
    /\ pc = "except"
    /\ progressCalls' = IF progress # None
                        THEN Append(progressCalls, ProgressCall("stop"))
                        ELSE progressCalls
    /\ pc' = "raised"
    /\ outcome' = Raised("KeyboardInterrupt", NoResponse)
    /\ UNCHANGED <<op, method, kwargs, log, response, total_size_bytes, progress,
                   written_bytes, chunk, streamed, writes, disk, fileOpen, interruptedAt>>

\* a KeyboardInterrupt arrives in download_file outside the try block (lines 92-99
\* and 116-117): nothing catches it
KeyboardInterruptOutsideTry ==
    /\ pc \in OutsideTryPositions
    /\ interruptedAt' = pc
    /\ pc' = "raised"
    /\ outcome' = Raised("KeyboardInterrupt", NoResponse)
    /\ UNCHANGED <<op, method, kwargs, log, response, total_size_bytes, progress,
                   progressCalls, written_bytes, chunk, streamed, writes, disk, fileOpen>>

\* lines 116-117: stop the indicator, if any, and return None
finish ==
    /\ pc = "finish"
    /\ progressCalls' = IF progress # None
                        THEN Append(progressCalls, ProgressCall("stop"))
                        ELSE progressCalls
    /\ pc' = "returned"
    /\ outcome' = Returned(NoResponse)
    /\ UNCHANGED <<op, method, kwargs, log, response, total_size_bytes, progress,
                   written_bytes, chunk, streamed, writes, disk, fileOpen, interruptedAt>>

Next ==
    \/ get
    \/ post
    \/ request
    \/ download_file
    \/ _log_request
    \/ dispatch
    \/ _check_response
    \/ content_length
    \/ acquire_progress
    \/ open
    \/ open_fails
    \/ iter_content
    \/ iter_ends
    \/ iter_fails
    \/ write
    \/ write_fails
    \/ update
    \/ KeyboardInterrupt
    \/ except_KeyboardInterrupt
    \/ KeyboardInterruptOutsideTry
    \/ finish

Spec == Init /\ [][Next]_vars

-----------------------------------------------------------------------------
(* Properties. *)

RequestOps == {"get", "post", "request"}

\* a call of get, post or request whose response has been checked: it has returned,
\* or it has raised after the transport answered
Checked ==
    /\ op \in RequestOps
    /\ pc \in {"returned", "raised"}
    /\ response # NoResponse

Non2xx == response.status_code \notin 200..299
ExplicitlyFalse ==
    "raise_for_status" \in DOMAIN kwargs /\ kwargs["raise_for_status"] = FALSE

StopCount ==
    Cardinality({i \in DOMAIN progressCalls : progressCalls[i].call = "stop"})

\* C1: every call of get, post or request with a status outside [200, 300) and
\* raise_for_status absent or true logs the unsuccessful response and then fails
\* with an HTTPError carrying the response; it never returns normally.
C1_Non2xxAlwaysRaises ==
    (Checked /\ Non2xx /\ ~ExplicitlyFalse) =>
        /\ outcome = Raised("HTTPError", response)
        /\ log[Len(log)] = UnsuccessfulMessage(response)

\* C2: with a status outside [200, 300) and raise_for_status explicitly false, the
\* unsuccessful-response line is logged exactly once (the log is the request line
\* followed by it), no error is raised and the transport's response is returned.
C2_SuppressedErrorReturns ==
    (Checked /\ Non2xx /\ ExplicitlyFalse) =>
        /\ outcome = Returned(response)
        /\ Len(log) = 2
        /\ log[2] = UnsuccessfulMessage(response)

C2_Witness ==
    /\ Checked /\ ExplicitlyFalse
    /\ op = "post"
    /\ response.status_code = 300
    /\ outcome = Returned(response)
    /\ log[2] = "Request was not successful, status code 300, empty body"

\* C3: with a status in [200, 300) nothing but the request line is logged and the
\* response is returned, whatever raise_for_status is.
C3_SuccessIsSilent ==
    (Checked /\ ~Non2xx) =>
        /\ outcome = Returned(response)
        /\ Len(log) = 1

C3_Witness ==
    /\ Checked
    /\ op = "request"
    /\ response.status_code = 200
    /\ "raise_for_status" \in DOMAIN kwargs /\ kwargs["raise_for_status"] = TRUE
    /\ outcome = Returned(response)
    /\ Len(log) = 1

\* the chunks written when the interrupt arrived: the chunk in hand at line 106 has
\* been yielded but not written yet
WrittenBeforeInterrupt ==
    IF interruptedAt = "write" THEN SubSeq(streamed, 1, Len(streamed) - 1) ELSE streamed

\* C4: once a KeyboardInterrupt has arrived in the streaming loop, the file holds
\* exactly the chunks written before it and is never written again or deleted; the
\* indicator, if any, is stopped exactly once, in the except clause, before the same
\* KeyboardInterrupt leaves download_file.
C4_InterruptStopsAndKeepsFile ==
    (interruptedAt \in StreamingPositions) =>
        /\ disk = FileWith(Concat(WrittenBeforeInterrupt))
        /\ writes = Len(WrittenBeforeInterrupt)
        /\ pc \in {"except", "raised"}
        /\ pc = "except" => (StopCount = 0 /\ outcome = NoOutcome)
        /\ pc = "raised" =>
              /\ outcome = Raised("KeyboardInterrupt", NoResponse)
              /\ StopCount = (IF progress # None THEN 1 ELSE 0)

C4_Witness ==
    /\ pc = "raised"
    /\ interruptedAt = "write"
    /\ progress # None
    /\ Len(streamed) = 2
    /\ disk = FileWith(streamed[1])
    /\ StopCount = 1
    /\ outcome.error = "KeyboardInterrupt"

NoLengthOrZero == response.headers \in { <<>>, << <<"0">> >> }

\* C5: download_file on a response without content-length, or with content-length 0,
\* makes no call on the progress interface, and on normal completion the file holds
\* the streamed chunks, concatenated in order.
C5_NoLengthNoProgress ==
    (op = "download_file" /\ NoLengthOrZero) =>
        /\ progressCalls = <<>>
        /\ progress = None
        /\ pc = "returned" => disk = FileWith(Concat(streamed))

C5_Witness ==
    /\ op = "download_file"
    /\ response.headers = <<>>
    /\ response.status_code = 200
    /\ pc = "returned"
    /\ Len(streamed) = 2
    /\ disk.bytes = streamed[1] \o streamed[2]
    /\ progressCalls = <<>>

NonNumericLength == response.headers = << <<"a", "b", "c">> >>

\* C6 as stated: a non-numeric content-length is treated as a missing one, and no
\* error is raised because of the header.
C6_NonNumericTreatedAsMissing ==
    (op = "download_file" /\ NonNumericLength) => outcome.error # "ValueError"

\* C6, amended: a non-numeric content-length makes download_file fail at the header
\* read with a ValueError: the call gets no further than line 92, acquires no
\* progress indicator, and neither opens nor writes the output path.
C6_NonNumericRaisesValueError ==
    (op = "download_file" /\ NonNumericLength) =>
        /\ pc \in {"check_response", "content_length", "raised"}
        /\ progressCalls = <<>>
        /\ disk \in InitialDisks /\ ~fileOpen /\ writes = 0 /\ streamed = <<>>
        /\ (pc = "raised" /\ interruptedAt = "never" /\ outcome.error # "HTTPError")
                => outcome = Raised("ValueError", NoResponse)

C6_Witness ==
    /\ op = "download_file"
    /\ NonNumericLength
    /\ response.status_code = 200
    /\ pc = "raised"
    /\ outcome.error = "ValueError"
    /\ progressCalls = <<>>

\* len(c1) + ... + len(ck)
RECURSIVE SumLen(_, _)
SumLen(chunks, k) == IF k = 0 THEN 0 ELSE SumLen(chunks, k - 1) + Len(chunks[k])

\* the number a numeric content-length header of the model denotes
HeaderNumber ==
    CASE response.headers = << <<"3">> >> -> 3
      [] response.headers = << <<"4">> >> -> 4
      [] OTHER -> 0

\* C7: a download with content-length T > 0 that streams c1..cn to normal completion
\* calls progress(), add_task, one update per chunk with
\* completed = (len(c1)+...+len(ck)) / T * 100, and stop once at the end; the file
\* holds c1..cn.  For T = 4 and two chunks of 2 bytes the updates are 50 and 100.
C7_ProgressPerChunk ==
    (op = "download_file" /\ pc = "returned" /\ HeaderNumber > 0) =>
        LET n == Len(streamed)
            T == HeaderNumber
        IN  /\ Len(progressCalls) = n + 3
            /\ progressCalls[1].call = "progress"
            /\ progressCalls[2].call = "add_task"
            /\ progressCalls[n + 3].call = "stop"
            /\ \A k \in 1..n :
                  /\ progressCalls[k + 2].call = "update"
                  /\ progressCalls[k + 2].completed.den # 0
                  /\ progressCalls[k + 2].completed.num * T
                        = SumLen(streamed, k) * 100 * progressCalls[k + 2].completed.den
            /\ disk = FileWith(Concat(streamed))
            /\ (T = 4 /\ n = 2 /\ Len(streamed[1]) = 2 /\ Len(streamed[2]) = 2) =>
                  /\ progressCalls[3].completed.num = 50 * progressCalls[3].completed.den
                  /\ progressCalls[4].completed.num = 100 * progressCalls[4].completed.den

C7_Witness ==
    /\ op = "download_file"
    /\ pc = "returned"
    /\ response.headers = << <<"4">> >>
    /\ streamed = << <<0, 1>>, <<1, 1>> >>
    /\ disk = FileWith(<<0, 1, 1, 1>>)
    /\ Len(progressCalls) = 5
    /\ progressCalls[3].completed.num = 50 * progressCalls[3].completed.den
    /\ progressCalls[4].completed.num = 100 * progressCalls[4].completed.den
    /\ StopCount = 1

\* the first line of the log for the verb of the call
RequestLine ==
    CASE op = "get" -> "--> GET https://host/file"
      [] op = "post" -> "--> POST https://host/file"
      [] op = "request" -> "--> PUT https://host/file"

Present(key) == key \in DOMAIN kwargs
NonEmpty(key) == Present(key) /\ kwargs[key] \notin {PyNone, EmptyDict}

\* the text json.dumps(value, indent=4) gives for the payloads of the model
ExpectedDump(value) ==
    CASE value = DictA -> "{\n    \"a\": 1\n}"
      [] value = DictB -> "{\n    \"b\": 2\n}"
      [] value = EmptyList -> "[]"
      [] OTHER -> "?"

\* every payload given is one json.dumps can encode
AllEncodable ==
    \A key \in {"json", "data", "params"} : Present(key) => kwargs[key] # BytesValue

\* C8 as stated: the payload logged is the first of json, data, params that is
\* present and non-empty (neither None nor {}), and it is omitted exactly when all
\* three are empty or absent.
C8_FirstNonEmptyIsLogged ==
    (op \in RequestOps /\ AllEncodable /\ Len(log) >= 1) =>
        log[1] = IF NonEmpty("json")
                     THEN RequestLine \o " with data:\n" \o ExpectedDump(kwargs["json"])
                 ELSE IF NonEmpty("data")
                     THEN RequestLine \o " with data:\n" \o ExpectedDump(kwargs["data"])
                 ELSE IF NonEmpty("params")
                     THEN RequestLine \o " with data:\n" \o ExpectedDump(kwargs["params"])
                 ELSE RequestLine

\* the value of the first of json, data, params that is present, empty or not
FirstGiven ==
    IF Present("json") THEN kwargs["json"]
    ELSE IF Present("data") THEN kwargs["data"]
    ELSE IF Present("params") THEN kwargs["params"]
    ELSE PyNone

\* C8, amended: the payload considered is the value of the first of json, data,
\* params that is present, whether or not it is empty.  The payload part is omitted
\* exactly when no key is present or that value is None or {}; otherwise the line
\* ends with its json.dumps text, and a value json.dumps cannot encode makes the call
\* fail with a TypeError before anything is logged or sent.
C8_FirstPresentIsLogged ==
    (op \in RequestOps /\ pc # "log_request") =>
        IF FirstGiven \in {PyNone, EmptyDict}
            THEN Len(log) >= 1 /\ log[1] = RequestLine
        ELSE IF FirstGiven = BytesValue
            THEN /\ log = <<>>
                 /\ pc = "raised"
                 /\ outcome = Raised("TypeError", NoResponse)
        ELSE /\ Len(log) >= 1
             /\ log[1] = RequestLine \o " with data:\n" \o ExpectedDump(FirstGiven)

C8_Witness ==
    /\ op = "get"
    /\ pc = "returned"
    /\ Present("json") /\ kwargs["json"] = EmptyDict
    /\ Present("data") /\ kwargs["data"] = DictA
    /\ log[1] = "--> GET https://host/file"

\* C9: the file handle is open only inside the streaming block, and it is closed in
\* every state in which download_file has left that block: after normal completion,
\* after an error while reading or writing, and after a KeyboardInterrupt.
C9_HandleIsScoped ==
    /\ fileOpen => pc \in StreamingPositions
    /\ pc \in {"finish", "except", "returned", "raised"} => ~fileOpen

C9_Witness ==
    /\ op = "download_file"
    /\ pc = "raised"
    /\ outcome.error = "OSError"
    /\ writes = 1
    /\ Len(streamed) = 2
    /\ ~fileOpen

\* C10: whenever download_file has acquired a progress indicator, the indicator has
\* been stopped exactly once when the call has ended: by a return, by a
\* KeyboardInterrupt in the try block, or by any other error.
C10_ProgressStoppedOnEveryExit ==
    (/\ op = "download_file"
     /\ pc \in {"returned", "raised"}
     /\ progress # None
     /\ interruptedAt \notin OutsideTryPositions) => StopCount = 1
====
